---- MODULE Spec2Model ----
(***************************************************************************)
(* A model of multiqc/modules/salmon/salmon.py: the construction of        *)
(* MultiqcModule (the two parsing loops, the ignore filter, the empty      *)
(* check, the hand-over to the host report) and plot_gc_bias.              *)
(*                                                                         *)
(* Paths are sequences of path components, file contents are sequences of  *)
(* characters (salmon/fld) or of JSON tokens (salmon/meta), numpy's        *)
(* float64 arithmetic is binary floating point with MantissaBits bits of   *)
(* mantissa and round-to-nearest-even.  The correlation matrices that      *)
(* np.corrcoef returns are not computed: a heat map is recorded with the   *)
(* sample names it is drawn for.                                           *)
(***************************************************************************)
EXTENDS Integers, Sequences, FiniteSets, TLC

VARIABLES pc, nfiles, f, s_name, ignored,
          salmon_meta, salmon_fld, salmon_gc, calls

vars == <<pc, nfiles, f, s_name, ignored,
          salmon_meta, salmon_fld, salmon_gc, calls>>

(***************************************************************************)
(* Bounds of the model.                                                    *)
(***************************************************************************)
\* files a find_log_files() loop yields at most
MaxFiles == 2
\* characters of a salmon/fld file in SpecFld
MaxLen == 3
\* samples in salmon_gc in SpecGC
MaxSamples == 3
\* mantissa bits of the modelled floating point (float64 has 53)
MantissaBits == 3

\* np.zeros(shape=(3, 25)): three bias levels, 25 bins
NumLevels == 3
NumBins == 25
\* self.scale(ratio, 100)
FragmentLen == 100

EmptyMap == [x \in {} |-> 0]
NoFile == [root |-> <<>>, f |-> <<>>]

(***************************************************************************)
(* os.path on a path given as the sequence of its components.              *)
(***************************************************************************)
basename(p) == IF Len(p) = 0 THEN "" ELSE p[Len(p)]

dirname(p) == IF Len(p) = 0 THEN <<>> ELSE SubSeq(p, 1, Len(p) - 1)

(***************************************************************************)
(* The host framework (BaseMultiqcModule).                                 *)
(***************************************************************************)
\* clean_s_name trims the configured extensions off a sample name
clean_s_name(name) == IF name = "B.fq" THEN "B" ELSE name

\* ignore_samples drops the keys that match the configured ignore patterns
ignore_samples(data) == [k \in (DOMAIN data) \ ignored |-> data[k]]

\* a call of the host's API, as the host sees it
Call(op, plot, id, data, names) ==
    [op |-> op, plot |-> plot, id |-> id, data |-> data, names |-> names]

(***************************************************************************)
(* json.loads on a token sequence.  The grammar is the part of JSON a      *)
(* meta_info.json uses: a number, or an object of string keys and numbers. *)
(***************************************************************************)
JsonKeys == {"percent_mapped", "num_mapped"}
JsonNums == {"5", "7"}
JsonNum(tok) == IF tok = "5" THEN 5 ELSE 7

\* the (key, value) a dict holds after d[key] = value
DictSet(d, key, value) == [k \in (DOMAIN d) \cup {key} |->
                              IF k = key THEN value ELSE d[k]]

RECURSIVE JsonMembers(_, _)
\* toks after "{" or ",": key ":" number, then "," or "}" ; FALSE-tagged when malformed
JsonMembers(toks, acc) ==
    IF Len(toks) < 4 \/ toks[1] \notin JsonKeys \/ toks[2] # ":"
       \/ toks[3] \notin JsonNums
    THEN [ok |-> FALSE, kind |-> "", num |-> 0, members |-> EmptyMap]
    ELSE LET acc1 == DictSet(acc, toks[1], JsonNum(toks[3]))
         IN IF toks[4] = "}" /\ Len(toks) = 4
            THEN [ok |-> TRUE, kind |-> "object", num |-> 0, members |-> acc1]
            ELSE IF toks[4] = ","
                 THEN JsonMembers(SubSeq(toks, 5, Len(toks)), acc1)
                 ELSE [ok |-> FALSE, kind |-> "", num |-> 0, members |-> EmptyMap]

json_loads(toks) ==
    IF Len(toks) = 1 /\ toks[1] \in JsonNums
    THEN [ok |-> TRUE, kind |-> "number", num |-> JsonNum(toks[1]), members |-> EmptyMap]
    ELSE IF toks = <<"{", "}">>
         THEN [ok |-> TRUE, kind |-> "object", num |-> 0, members |-> EmptyMap]
         ELSE IF Len(toks) >= 1 /\ toks[1] = "{"
              THEN JsonMembers(SubSeq(toks, 2, Len(toks)), EmptyMap)
              ELSE [ok |-> FALSE, kind |-> "", num |-> 0, members |-> EmptyMap]

(***************************************************************************)
(* str.split() and float() on a character sequence.                        *)
(***************************************************************************)
Whitespace == {" ", "\n"}
Digits == {"1", "2"}
DigitVal(c) == IF c = "1" THEN 1 ELSE 2

RECURSIVE SplitFrom(_, _, _)
\* the tokens of s, cur being the token under construction
SplitFrom(s, cur, acc) ==
    IF Len(s) = 0
    THEN IF Len(cur) = 0 THEN acc ELSE Append(acc, cur)
    ELSE IF s[1] \in Whitespace
         THEN SplitFrom(Tail(s), <<>>, IF Len(cur) = 0 THEN acc ELSE Append(acc, cur))
         ELSE SplitFrom(Tail(s), Append(cur, s[1]), acc)

split(s) == SplitFrom(s, <<>>, <<>>)

\* float(v) raises ValueError unless this holds
IsNumber(tok) == Len(tok) > 0 /\ \A i \in 1..Len(tok) : tok[i] \in Digits

RECURSIVE DecimalValue(_)
DecimalValue(tok) ==
    IF Len(tok) = 0 THEN 0
    ELSE 10 * DecimalValue(SubSeq(tok, 1, Len(tok) - 1)) + DigitVal(tok[Len(tok)])

float(tok) == DecimalValue(tok)

(***************************************************************************)
(* float64 arithmetic, at MantissaBits bits: a finite value is m * 2^e     *)
(* with 2^(MantissaBits-1) <= m < 2^MantissaBits (or m = 0), every         *)
(* operation rounds its exact result to nearest, ties to even.             *)
(***************************************************************************)
Fin(m, e) == [k |-> "fin", m |-> m, e |-> e]
Zero == Fin(0, 0)
Inf == [k |-> "inf", m |-> 0, e |-> 0]
NaN == [k |-> "nan", m |-> 0, e |-> 0]

RECURSIVE BitLen(_)
BitLen(n) == IF n = 0 THEN 0 ELSE 1 + BitLen(n \div 2)

\* the float nearest to n * 2^e; sticky: the exact value lies a little above n * 2^e
RoundNE(n, e, sticky) ==
    IF n = 0 THEN Zero
    ELSE LET k == BitLen(n) - MantissaBits
         IN IF k <= 0
            THEN Fin(n * 2^(0 - k), e + k)
            ELSE LET q == n \div 2^k
                     r == n % 2^k
                     half == 2^(k - 1)
                     up == r > half \/ (r = half /\ (sticky \/ q % 2 = 1))
                     q1 == IF up THEN q + 1 ELSE q
                 IN IF q1 = 2^MantissaBits
                    THEN Fin(2^(MantissaBits - 1), e + k + 1)
                    ELSE Fin(q1, e + k)

\* the float of the number n * 2^e
Flt(n, e) == RoundNE(n, e, FALSE)

FMul(a, b) == RoundNE(a.m * b.m, a.e + b.e, FALSE)

FAdd(a, b) ==
    LET e == IF a.e < b.e THEN a.e ELSE b.e
    IN IF a.m = 0 THEN b
       ELSE IF b.m = 0 THEN a
            ELSE RoundNE(a.m * 2^(a.e - e) + b.m * 2^(b.e - e), e, FALSE)

\* np.divide: x/0 is inf, 0/0 is nan (a RuntimeWarning, no exception)
FDiv(a, b) ==
    IF b.m = 0 THEN (IF a.m = 0 THEN NaN ELSE Inf)
    ELSE LET n == a.m * 2^(MantissaBits + 1)
         IN RoundNE(n \div b.m, a.e - b.e - (MantissaBits + 1), n % b.m # 0)

(***************************************************************************)
(* GCModel: exp_weights_ and obs_weights_ (one weight per bias level),     *)
(* exp_ and obs_ (NumLevels x NumBins), of the models from_file can read.  *)
(***************************************************************************)
Levels == 1..NumLevels
Bins == 1..NumBins

\* a GCModel, named by the file it was read from
GC(ew, ow, ev, ov) == [ew |-> ew, ow |-> ow, ev |-> ev, ov |-> ov]

exp_weights_(gc) == [r \in Levels |-> Flt(gc.ew, 0)]

obs_weights_(gc) == [r \in Levels |-> Flt(gc.ow + r - 1, 0)]

exp_(gc) == [r \in Levels |-> [b \in Bins |-> Flt((b + r + gc.ev) % 3, -1)]]

obs_(gc) == [r \in Levels |-> [b \in Bins |-> Flt(1 + ((b * gc.ov + r) % 2), -2)]]

\* the models GCModel.from_file reads in Spec, and those SpecGC draws from
GCModels == {GC(1, 7, 0, 1), GC(2, 2, 1, 2)}

MoreGCModels == GCModels \cup {GC(1, 1, 2, 2)}

(***************************************************************************)
(* The files find_log_files can yield.                                     *)
(***************************************************************************)
File(root, content) == [root |-> root, f |-> content]

MetaFiles ==
    { File(<<"data", "A", "aux_info">>, <<"{", "percent_mapped", ":", "5", "}">>),
      File(<<"data", "B.fq", "aux_info">>,
           <<"{", "percent_mapped", ":", "7", ",", "num_mapped", ":", "5", "}">>),
      File(<<"data", "A", "aux_info">>, <<"{", "percent_mapped", ":">>) }

FldRoots == { <<"data", "A", "libParams">>, <<"data", "B.fq", "libParams">>,
              <<"data", "A", "logs">> }

FldFiles ==
    { File(<<"data", "A", "libParams">>, <<"1", " ", "2">>),
      File(<<"data", "B.fq", "libParams">>, <<"2", "\n", "1", "1", " ">>),
      File(<<"data", "A", "libParams">>, <<"1", " ", "x">>),
      File(<<"data", "A", "libParams">>, <<" ">>),
      File(<<"data", "B.fq", "libParams">>, <<>>),
      File(<<"data", "A", "logs">>, <<"1">>) }

Chars == Whitespace \cup Digits \cup {"x"}
Contents == UNION { [1..n -> Chars] : n \in 0..MaxLen }
AllFldFiles == { File(root, content) : root \in FldRoots, content \in Contents }

\* the sample names the files above give rise to, and the ignore configurations
IgnoreConfigs == { {}, {"A"}, {"data"} }

(***************************************************************************)
(* __init__, lines 47-49: the OrderedDict built from the tokens.  An       *)
(* OrderedDict is the sequence of its (key, value) pairs in insertion      *)
(* order.                                                                  *)
(***************************************************************************)
ODSet(od, key, value) ==
    IF \E j \in 1..Len(od) : od[j][1] = key
    THEN [j \in 1..Len(od) |-> IF od[j][1] = key THEN <<key, value>> ELSE od[j]]
    ELSE Append(od, <<key, value>>)

RECURSIVE EnumerateTokens(_, _, _)
\* for i, v in enumerate(tokens): parsed[i] = float(v)
EnumerateTokens(toks, i, parsed) ==
    IF Len(toks) = 0 THEN [ok |-> TRUE, parsed |-> parsed]
    ELSE IF ~IsNumber(toks[1]) THEN [ok |-> FALSE, parsed |-> <<>>]
         ELSE EnumerateTokens(Tail(toks), i + 1, ODSet(parsed, i, float(toks[1])))

\* lines 47-49 gone wrong: enumerate(tokens, 1)
ParseFldFromOne(content) == EnumerateTokens(split(content), 1, <<>>)

ParseFld(content) == EnumerateTokens(split(content), 0, <<>>)

(***************************************************************************)
(* parse_gc_bias: exp_exists and obs_exists are what os.path.exists says,  *)
(* gc is what GCModel.from_file reads.                                     *)
(***************************************************************************)
GcSampleName(f_root) == basename(dirname(dirname(f_root)))

parse_gc_bias(gcs, f_root, exp_exists, obs_exists, gc) ==
    IF exp_exists /\ obs_exists
    THEN Append(gcs, <<GcSampleName(f_root), gc>>)
    ELSE gcs

(***************************************************************************)
(* plot_gc_bias.                                                           *)
(***************************************************************************)
ZeroMat == [r \in Levels |-> [b \in Bins |-> Zero]]

\* np.multiply(np.array(weights)[:, np.newaxis], mat)
Weighted(weights, mat) == [r \in Levels |-> [b \in Bins |-> FMul(weights[r], mat[r][b])]]

MatAdd(x, y) == [r \in Levels |-> [b \in Bins |-> FAdd(x[r][b], y[r][b])]]

MatDiv(x, y) == [r \in Levels |-> [b \in Bins |-> FDiv(x[r][b], y[r][b])]]

\* fragment_len / len(ratios) is 100 / 25, the same number with "/" or "//"
scale(ratios, fragment_len) ==
    LET scaling_factor == fragment_len \div Len(ratios)
    IN [key \in { (i - 1) * scaling_factor : i \in 1..Len(ratios) } |->
           ratios[(key \div scaling_factor) + 1]]

SampleRatio(sample_gc) ==
    MatDiv(Weighted(obs_weights_(sample_gc), obs_(sample_gc)),
           Weighted(exp_weights_(sample_gc), exp_(sample_gc)))

AccumulateExp(exp_avg, sample_gc) ==
    MatAdd(exp_avg, Weighted(exp_weights_(sample_gc), exp_(sample_gc)))

\* line 122 gone wrong: "=" for "+="
AccumulateObsAssign(obs_avg, sample_gc) ==
    Weighted(obs_weights_(sample_gc), obs_(sample_gc))

AccumulateObs(obs_avg, sample_gc) ==
    MatAdd(obs_avg, Weighted(obs_weights_(sample_gc), obs_(sample_gc)))

RECURSIVE GcLoop(_, _)
\* the loop over self.salmon_gc, acc holding the locals it updates
GcLoop(gcs, acc) ==
    IF Len(gcs) = 0 THEN acc
    ELSE LET sample_name == gcs[1][1]
             sample_gc == gcs[1][2]
             ratio == SampleRatio(sample_gc)
         IN GcLoop(Tail(gcs),
                   [sample_names |-> Append(acc.sample_names, sample_name),
                    exp_avg |-> AccumulateExp(acc.exp_avg, sample_gc),
                    obs_avg |-> AccumulateObs(acc.obs_avg, sample_gc),
                    qrt1 |-> DictSet(acc.qrt1, sample_name, scale(ratio[1], FragmentLen)),
                    qrt2 |-> DictSet(acc.qrt2, sample_name, scale(ratio[2], FragmentLen)),
                    qrt3 |-> DictSet(acc.qrt3, sample_name, scale(ratio[3], FragmentLen))])

GcTotals(gcs) ==
    GcLoop(gcs, [sample_names |-> <<>>, exp_avg |-> ZeroMat, obs_avg |-> ZeroMat,
                 qrt1 |-> EmptyMap, qrt2 |-> EmptyMap, qrt3 |-> EmptyMap])

RatioAvg(gcs) == LET t == GcTotals(gcs) IN MatDiv(t.obs_avg, t.exp_avg)

AvgPlot(gcs) ==
    LET ratio_avg == RatioAvg(gcs)
    IN [name \in {"low-bias", "medium-bias", "high-bias"} |->
           scale(ratio_avg[CASE name = "low-bias" -> 1
                             [] name = "medium-bias" -> 2
                             [] OTHER -> 3], FragmentLen)]

GcBiasSections(gcs) ==
    LET t == GcTotals(gcs)
        avg_plot == AvgPlot(gcs)
    IN << Call("add_section", "linegraph", "Low", t.qrt1, <<>>),
          Call("add_section", "linegraph", "Medium", t.qrt2, <<>>),
          Call("add_section", "linegraph", "High", t.qrt3, <<>>),
          Call("add_section", "linegraph", "Average", avg_plot, <<>>),
          Call("add_section", "linegraph", "Average", avg_plot, <<>>),
          Call("add_section", "heatmap", "low", EmptyMap, t.sample_names),
          Call("add_section", "heatmap", "medium", EmptyMap, t.sample_names),
          Call("add_section", "heatmap", "high", EmptyMap, t.sample_names),
          Call("add_section", "heatmap", "complete", EmptyMap, t.sample_names) >>

(***************************************************************************)
(* MultiqcModule.__init__, one action per step of the constructor.         *)
(***************************************************************************)
SampleName(root) == clean_s_name(basename(dirname(root)))

Init ==
    /\ pc = "meta"
    /\ nfiles = 0
    /\ f = NoFile
    /\ s_name = ""
    /\ ignored \in IgnoreConfigs
    /\ salmon_meta = EmptyMap
    /\ salmon_fld = EmptyMap
    /\ salmon_gc = <<>>
    /\ calls = <<>>

\* lines 33-37: one iteration of the salmon/meta loop
MetaStep ==
    /\ pc = "meta"
    /\ nfiles < MaxFiles
    /\ \E file \in MetaFiles :
          LET loaded == json_loads(file.f)
          IN /\ f' = file
             /\ s_name' = SampleName(file.root)
             /\ IF loaded.ok
                THEN /\ salmon_meta' = DictSet(salmon_meta, SampleName(file.root),
                                               [kind |-> loaded.kind, num |-> loaded.num,
                                                members |-> loaded.members])
                     /\ nfiles' = nfiles + 1
                     /\ pc' = "meta"
                ELSE /\ pc' = "ValueError"
                     /\ UNCHANGED <<salmon_meta, nfiles>>
    /\ UNCHANGED <<ignored, salmon_fld, salmon_gc, calls>>

\* lines 39-40: the salmon/meta loop is over (its locals are dead from here on)
MetaEnd ==
    /\ pc = "meta"
    /\ pc' = "fld"
    /\ nfiles' = 0
    /\ f' = NoFile
    /\ s_name' = ""
    /\ salmon_fld' = EmptyMap
    /\ salmon_gc' = <<>>
    /\ UNCHANGED <<ignored, salmon_meta, calls>>

\* line 41: find_log_files('salmon/fld') yields the next file
FldNext ==
    /\ pc = "fld"
    /\ nfiles < MaxFiles
    /\ \E file \in FldFiles : f' = file
    /\ nfiles' = nfiles + 1
    /\ pc' = "fld_body"
    /\ UNCHANGED <<s_name, ignored, salmon_meta, salmon_fld, salmon_gc, calls>>

\* line 43 gone wrong: the directory is not looked at
InLibParamsAnyDir(root) == TRUE

InLibParams(root) == basename(root) = "libParams"

\* lines 43-54: the body of the salmon/fld loop, for the file f
FldBody ==
    /\ pc = "fld_body"
    /\ IF InLibParams(f.root)
       THEN \E exp_exists \in BOOLEAN, obs_exists \in BOOLEAN, gc \in GCModels :
               LET res == ParseFld(f.f)
               IN /\ s_name' = SampleName(f.root)
                  /\ salmon_gc' = parse_gc_bias(salmon_gc, f.root, exp_exists, obs_exists, gc)
                  /\ IF ~res.ok
                     THEN /\ pc' = "ValueError"
                          /\ UNCHANGED <<salmon_fld, calls>>
                     ELSE /\ pc' = "fld"
                          /\ IF Len(res.parsed) > 0
                             THEN /\ calls' = Append(calls,
                                         Call("add_data_source", "", SampleName(f.root),
                                              f.root, <<>>))
                                  /\ salmon_fld' = DictSet(salmon_fld, SampleName(f.root),
                                                           res.parsed)
                             ELSE UNCHANGED <<salmon_fld, calls>>
       ELSE /\ pc' = "fld"
            /\ UNCHANGED <<s_name, salmon_fld, salmon_gc, calls>>
    /\ UNCHANGED <<nfiles, f, ignored, salmon_meta>>

\* lines 55-57: the salmon/fld loop is over (its locals are dead from here on);
\* strip out ignored sample names
Filter ==
    /\ pc = "fld"
    /\ salmon_meta' = ignore_samples(salmon_meta)
    /\ salmon_fld' = ignore_samples(salmon_fld)
    /\ pc' = "check"
    /\ nfiles' = 0
    /\ f' = NoFile
    /\ s_name' = ""
    /\ UNCHANGED <<ignored, salmon_gc, calls>>

\* line 59 gone wrong: "or" for "and"
NothingFoundEither(meta, fld) == DOMAIN meta = {} \/ DOMAIN fld = {}

NothingFound(meta, fld) == DOMAIN meta = {} /\ DOMAIN fld = {}

\* lines 59-65
Check ==
    /\ pc = "check"
    /\ IF NothingFound(salmon_meta, salmon_fld)
       THEN /\ pc' = "UserWarning"
            /\ UNCHANGED calls
       ELSE /\ pc' = "report"
            /\ calls' = IF DOMAIN salmon_meta # {}
                        THEN Append(calls, Call("write_data_file", "", "multiqc_salmon",
                                                salmon_meta, <<>>))
                        ELSE calls
    /\ UNCHANGED <<nfiles, f, s_name, ignored, salmon_meta, salmon_fld, salmon_gc>>

\* lines 67-98
Report ==
    /\ pc = "report"
    /\ calls' = calls \o
           << Call("general_stats_addcols", "", "", salmon_meta, <<>>),
              Call("add_section", "linegraph", "salmon_plot", salmon_fld, <<>>) >>
    /\ pc' = "plot_gc_bias"
    /\ UNCHANGED <<nfiles, f, s_name, ignored, salmon_meta, salmon_fld, salmon_gc>>

\* line 99 and plot_gc_bias, lines 101-148
PlotGcBias ==
    /\ pc = "plot_gc_bias"
    /\ calls' = calls \o GcBiasSections(salmon_gc)
    /\ pc' = "done"
    /\ UNCHANGED <<nfiles, f, s_name, ignored, salmon_meta, salmon_fld, salmon_gc>>

Next ==
    \/ MetaStep
    \/ MetaEnd
    \/ FldNext
    \/ FldBody
    \/ Filter
    \/ Check
    \/ Report
    \/ PlotGcBias

Spec == Init /\ [][Next]_vars

(***************************************************************************)
(* The body of the salmon/fld loop on every file of at most MaxLen         *)
(* characters: the first file of a run that found no salmon/meta file.     *)
(***************************************************************************)
InitFld ==
    /\ pc = "fld_body"
    /\ nfiles = 1
    /\ f \in AllFldFiles
    /\ s_name = ""
    /\ ignored \in IgnoreConfigs
    /\ salmon_meta = EmptyMap
    /\ salmon_fld = EmptyMap
    /\ salmon_gc = <<>>
    /\ calls = <<>>

SpecFld == InitFld /\ [][FldBody]_vars

(***************************************************************************)
(* plot_gc_bias on every salmon_gc of at most MaxSamples samples.          *)
(***************************************************************************)
GcSamples == { <<"data", gc>> : gc \in MoreGCModels } \cup { <<"A", GC(1, 7, 0, 1)>> }

InitGC ==
    /\ pc = "plot_gc_bias"
    /\ nfiles = 0
    /\ f = NoFile
    /\ s_name = ""
    /\ ignored = {}
    /\ salmon_meta = EmptyMap
    /\ salmon_fld = EmptyMap
    /\ salmon_gc \in UNION { [1..n -> GcSamples] : n \in 0..MaxSamples }
    /\ calls = <<>>

SpecGC == InitGC /\ [][PlotGcBias]_vars

(***************************************************************************)
(* The claims.                                                             *)
(***************************************************************************)
\* the file is one a parser rejects: json.loads or float raises ValueError on it
Malformed(file) ==
    IF file \in MetaFiles THEN ~json_loads(file.f).ok
    ELSE basename(file.root) = "libParams"
         /\ \E i \in 1..Len(split(file.f)) : ~IsNumber(split(file.f)[i])

DataSources == SelectSeq(calls, LAMBDA c : c.op = "add_data_source")

\* C1: a malformed file is skipped: the constructor does not abort with a parse
\* error on it (and so goes on to the files after it).
C1_MalformedSkipped == (f # NoFile /\ Malformed(f)) => pc # "ValueError"

\* C2: the tokens t_0..t_(n-1) of a salmon/fld file in a libParams directory, all
\* numbers, n >= 1, are stored for the sample as the ordered mapping with the
\* keys 0..n-1 in increasing order, key i holding the value of t_i.
C2_OrderedMapping ==
    LET toks == split(f.f)
    IN (/\ pc = "fld"
        /\ f # NoFile
        /\ basename(f.root) = "libParams"
        /\ Len(toks) >= 1
        /\ \A i \in 1..Len(toks) : IsNumber(toks[i]))
       => /\ s_name \in DOMAIN salmon_fld
          /\ Len(salmon_fld[s_name]) = Len(toks)
          /\ \A i \in 1..Len(toks) :
                salmon_fld[s_name][i] = <<i - 1, DecimalValue(toks[i])>>

\* C2's case: the file "2 1" of a libParams directory has been stored
C2_Witness ==
    /\ pc = "fld"
    /\ f.f = <<"2", " ", "1">>
    /\ s_name \in DOMAIN salmon_fld
    /\ salmon_fld[s_name] = << <<0, 2>>, <<1, 1>> >>

\* the step of the salmon/fld loop's body adds the entry of f and registers its
\* data source
AddsEntry ==
    /\ SampleName(f.root) \in DOMAIN salmon_fld'
    /\ \A k \in DOMAIN salmon_fld : k \in DOMAIN salmon_fld'
    /\ \A k \in (DOMAIN salmon_fld) \ {SampleName(f.root)} :
          salmon_fld'[k] = salmon_fld[k]
    /\ Len(calls') = Len(calls) + 1
    /\ calls'[Len(calls')].op = "add_data_source"
    /\ calls'[Len(calls')].id = SampleName(f.root)

LeavesUnchanged == salmon_fld' = salmon_fld /\ calls' = calls

\* C3 as claimed: a salmon/fld file adds an entry to salmon_fld and registers a
\* data source if and only if its directory is named libParams and its content
\* has at least one token; any other file leaves both unchanged.
C3_AsClaimed ==
    [][pc = "fld_body" =>
          IF basename(f.root) = "libParams" /\ Len(split(f.f)) >= 1
          THEN AddsEntry
          ELSE LeavesUnchanged]_vars

\* C3, amended: a salmon/fld file adds an entry to salmon_fld and registers a
\* data source if and only if its directory is named libParams, its content has
\* at least one token and float() accepts every token; any other file leaves
\* both unchanged.
C3_Amended ==
    [][pc = "fld_body" =>
          IF /\ basename(f.root) = "libParams"
             /\ Len(split(f.f)) >= 1
             /\ \A i \in 1..Len(split(f.f)) : IsNumber(split(f.f)[i])
          THEN AddsEntry
          ELSE LeavesUnchanged]_vars

\* C3's case: the second file of the loop, in a libParams directory, has been
\* stored and its data source registered, after a file of another directory
C3_Witness ==
    /\ pc = "fld"
    /\ nfiles = 2
    /\ basename(f.root) = "libParams"
    /\ DOMAIN salmon_fld = {s_name}
    /\ Len(calls) = 1
    /\ calls[1].op = "add_data_source"

ReportCalls ==
    SelectSeq(calls, LAMBDA c : c.op \in {"write_data_file", "general_stats_addcols",
                                          "add_section"})

WriteCalls == SelectSeq(calls, LAMBDA c : c.op = "write_data_file")

\* C4: the constructor raises UserWarning exactly when salmon_meta and salmon_fld
\* are both empty after the ignore filter; nothing has been handed to the report
\* when it raises; when it does not, write_data_file(salmon_meta,
\* 'multiqc_salmon') is called exactly when salmon_meta is not empty.
C4_UserWarning ==
    LET both_empty == DOMAIN salmon_meta = {} /\ DOMAIN salmon_fld = {}
    IN /\ pc = "UserWarning" => both_empty /\ ReportCalls = <<>>
       /\ pc \in {"report", "plot_gc_bias", "done"} =>
             /\ ~both_empty
             /\ Len(WriteCalls) = (IF DOMAIN salmon_meta # {} THEN 1 ELSE 0)
             /\ \A i \in 1..Len(WriteCalls) :
                   /\ WriteCalls[i].data = salmon_meta
                   /\ WriteCalls[i].id = "multiqc_salmon"

\* C4's case: files were parsed, every sample was ignored, UserWarning is raised
C4_Witness ==
    /\ pc = "UserWarning"
    /\ Len(DataSources) >= 1

\* C5: once the constructor is done, no ignored sample name is in the data handed
\* to the host: not in salmon_meta, not in salmon_fld, not among the samples of
\* the GC-bias line graphs and heat maps.
C5_IgnoredStripped ==
    pc = "done" =>
        /\ (DOMAIN salmon_meta) \cap ignored = {}
        /\ (DOMAIN salmon_fld) \cap ignored = {}
        /\ \A i \in 1..Len(calls) :
              /\ (calls[i].op = "add_section" /\ calls[i].plot = "heatmap") =>
                    \A j \in 1..Len(calls[i].names) : calls[i].names[j] \notin ignored
              /\ (calls[i].op = "add_section" /\ calls[i].id \in {"Low", "Medium", "High"}) =>
                    (DOMAIN calls[i].data) \cap ignored = {}

\* C6: the sample name parse_gc_bias records for a Salmon output directory S is
\* derived from basename(S), as the key of salmon_fld is: after the first
\* salmon/fld file, stored and with a GC model, the two are the same name.
C6_SameName ==
    (/\ pc = "fld"
     /\ nfiles = 1
     /\ Len(salmon_gc) = 1
     /\ s_name \in DOMAIN salmon_fld)
    => /\ s_name = clean_s_name(basename(dirname(f.root)))
       /\ clean_s_name(salmon_gc[1][1]) = s_name

LevelName(r) == CASE r = 1 -> "low-bias" [] r = 2 -> "medium-bias" [] OTHER -> "high-bias"

LevelId(r) == CASE r = 1 -> "Low" [] r = 2 -> "Medium" [] OTHER -> "High"

\* the data of the line graph with this id that plot_gc_bias handed to the host
Plotted(id) == SelectSeq(calls, LAMBDA c : c.op = "add_section" /\ c.id = id)[1].data

\* the plotted average ratio of level r at bin b
PlottedAvg(r, b) == Plotted("Average")[LevelName(r)][(b - 1) * (FragmentLen \div NumBins)]

RECURSIVE SumObs(_, _, _, _)
\* the sum over the first n samples of obs_weights_[r] * obs_[r][b]
SumObs(gcs, n, r, b) ==
    IF n = 0 THEN Zero
    ELSE FAdd(SumObs(gcs, n - 1, r, b),
              FMul(obs_weights_(gcs[n][2])[r], obs_(gcs[n][2])[r][b]))

RECURSIVE SumExp(_, _, _, _)
\* the sum over the first n samples of exp_weights_[r] * exp_[r][b]
SumExp(gcs, n, r, b) ==
    IF n = 0 THEN Zero
    ELSE FAdd(SumExp(gcs, n - 1, r, b),
              FMul(exp_weights_(gcs[n][2])[r], exp_(gcs[n][2])[r][b]))

\* gcs with the samples at i and j exchanged
Swap(gcs, i, j) ==
    [k \in 1..Len(gcs) |-> IF k = i THEN gcs[j] ELSE IF k = j THEN gcs[i] ELSE gcs[k]]

\* the plotted average is the quotient of the two weighted sums
AvgIsQuotient ==
    \A r \in Levels : \A b \in Bins :
        PlottedAvg(r, b) = FDiv(SumObs(salmon_gc, Len(salmon_gc), r, b),
                                SumExp(salmon_gc, Len(salmon_gc), r, b))

\* exchanging any two samples of salmon_gc leaves the plotted average as it is
AvgOrderFree ==
    \A i \in 1..Len(salmon_gc) : \A j \in 1..Len(salmon_gc) :
        AvgPlot(Swap(salmon_gc, i, j)) = Plotted("Average")

\* the plotted ratio of a sample (the last of its name) is the quotient of its
\* weighted observed and expected values
PerSampleRatio ==
    \A r \in Levels : \A i \in 1..Len(salmon_gc) :
        (\A j \in (i + 1)..Len(salmon_gc) : salmon_gc[j][1] # salmon_gc[i][1]) =>
            \A b \in Bins :
                Plotted(LevelId(r))[salmon_gc[i][1]][(b - 1) * (FragmentLen \div NumBins)]
                    = FDiv(FMul(obs_weights_(salmon_gc[i][2])[r], obs_(salmon_gc[i][2])[r][b]),
                           FMul(exp_weights_(salmon_gc[i][2])[r], exp_(salmon_gc[i][2])[r][b]))

\* C7 as claimed: the plotted average ratio of a level and bin is the sum over
\* the samples of obs_weights_ * obs_ divided by the sum of exp_weights_ * exp_,
\* whatever the order of the samples in salmon_gc; a sample's ratio is its
\* obs_weights_ * obs_ divided by its exp_weights_ * exp_.
C7_AsClaimed == pc = "done" => AvgIsQuotient /\ AvgOrderFree /\ PerSampleRatio

\* C7, amended: the sums are floating-point sums taken in the order of
\* salmon_gc, and the average does not depend on that order when salmon_gc
\* holds at most two samples; with three or more it does, by rounding.
C7_Amended ==
    pc = "done" =>
        /\ AvgIsQuotient
        /\ (Len(salmon_gc) <= 2 => AvgOrderFree)
        /\ PerSampleRatio

\* C7's case: the average of two samples with different GC models, a finite ratio
C7_Witness ==
    /\ pc = "done"
    /\ Len(salmon_gc) = 2
    /\ salmon_gc[1][2] # salmon_gc[2][2]
    /\ \E b \in Bins : PlottedAvg(1, b).k = "fin" /\ PlottedAvg(1, b).m # 0

====
